---- MODULE Spec2Model ----
(***************************************************************************)
(* Checkpoint / conversation state machine of dnrev-arch/whatsaut.         *)
(*                                                                         *)
(* The repository holds two variants of the same server:                   *)
(*   "index"    src/index.js            score-based instance selection,    *)
(*                                      expiry done by the periodic        *)
(*                                      cleanupExpiredCheckpoints          *)
(*   "part_001" src/unnamed/part_001    round-robin selection, one         *)
(*                                      setTimeout per activated           *)
(*                                      checkpoint, cleanupOldData         *)
(*   "part_000" src/unnamed/part_000    index.js without getInstanceApiKey *)
(*                                      and without the webhook's lookup   *)
(*                                      of the conversation: both requests *)
(*                                      throw after the state was written  *)
(* The variable `variant` is fixed by Init and selects which server runs.  *)
(*                                                                         *)
(* Time is counted in units of 24 hours.  Two events that happen at the    *)
(* same clock value are taken to be less than 5 minutes apart.             *)
(* response_rate moves in steps of 0.5, so it is stored doubled            *)
(* (response_rate2 = 2 * response_rate).                                   *)
(***************************************************************************)
EXTENDS Integers, Sequences, FiniteSets, TLC

\* ------------------------------------------------------------------ bounds
MaxTime == 4
MaxTimePair == 4
MaxTimePool == 1
MaxTimers == 2
MaxPassed == 1
MaxTimeLost == 2
MaxStatsTimeouts == 51
MaxStatsPassed == 2
MaxTimeLive == 5
MaxTimeRotation == 6

\* ------------------------------------------------------- program constants
\* 24 h, in units of 24 h
CHECKPOINT_TIMEOUT == 1
\* 48 h (index.js)
DATA_RETENTION_TIME_Idx == 2
\* 72 h (part_001)
DATA_RETENTION_TIME == 3
\* 300000 ms: same clock value
RECENT_WINDOW == 1
\* reset of the rotation counter (part_001)
INSTANCE_ROTATION_RESET == 1000

Variants == {"index", "part_001"}
\* the servers that share the code of index.js
IndexFamily == {"index", "part_000"}
\* client ids and checkpoint names are arbitrary strings
AllPhones == {"a", "a_b", "b"}
\* the client of Spec
Phones == {"a"}
\* the clients of SpecPair: "a" with checkpoint "b_c" and "a_b" with checkpoint "c" share
\* the timer key "a_b_c"
PairPhones == {"a", "a_b"}
PairActivations == {<<"a", "b_c", 4>>, <<"a_b", "c", 4>>}
\* the clients of SpecPool
PoolPhones == {"a", "a_b", "b"}
CheckpointNames == {"c", "b_c"}
\* message texts; " " is whitespace only
Messages == {"yes", " "}
\* timeout_minutes / 1440 offered by the caller of /api/checkpoint/activate
TimeoutOptions == {1, 4}
\* the configured pool: a list literal of ten instances in index.js and of one in
\* part_001; two instances are the shortest list on which selection, blocking and
\* rotation can be told apart
INSTANCES == <<"G01", "G02">>
\* JavaScript null in current_checkpoint
NoCheckpoint == ""

VARIABLES
    variant,                 \* which server is running
    now,                     \* wall clock
    conversationState,       \* Map phone -> conversation
    checkpointTimeouts,      \* the keys of the Map key -> timer handle (part_001)
    timers,                  \* armed setTimeout callbacks (part_001)
    instanceStats,           \* Map instance name -> stats
    instanceActive,          \* INSTANCES[i].active (part_001)
    instanceCounter,         \* instanceCounter (index.js)
    instanceRotationCounter, \* instanceRotationCounter (part_001)
    checkpointHistory,       \* global history, newest first
    dailyStats,              \* dailyStats (part_001)
    totalLeadsProcessed,     \* totalLeadsProcessed (part_001)
    notifications,           \* notifier calls made by the last step
    lastResult,              \* what the last step's call returned
    pending,                 \* history: checkpoint activated and not yet resolved / timed out
    resolved,                \* history: checkpoint resolved since the last activate
    deadline,                \* history: when the pending checkpoint's timeout elapses
    fallbackPicks            \* history: picks made while every instance was blocked

vars == <<variant, now, conversationState, checkpointTimeouts, timers, instanceStats,
          instanceActive, instanceCounter, instanceRotationCounter, checkpointHistory, dailyStats,
          totalLeadsProcessed, notifications, lastResult, pending, resolved,
          deadline, fallbackPicks>>

InstanceNames == {INSTANCES[i] : i \in 1..Len(INSTANCES)}

\* ---------------------------------------------------------------- helpers
MinUncapped(a, b) == b
\* Math.min
Min(a, b) == IF a < b THEN a ELSE b
MaxUnfloored(a, b) == b
\* Math.max
Max(a, b) == IF a > b THEN a ELSE b

\* Map.delete(key)
MapDelete(m, key) == [k \in (DOMAIN m) \ {key} |-> m[k]]
\* Map.set(key, value)
MapSet(m, key, value) == [k \in (DOMAIN m) \cup {key} |-> IF k = key THEN value ELSE m[k]]

\* String(null) inside a template literal
TemplateString(checkpoint) == IF checkpoint = NoCheckpoint THEN "null" ELSE checkpoint

\* `${phone}_${checkpoint}`
TimeoutKey(phone, checkpoint) == phone \o "_" \o TemplateString(checkpoint)

\* A setTimeout handle is known by the key it is stored under: of the armed timers at
\* most one is registered under a key, the others of that key were overwritten in the
\* Map without being cleared.  A key whose callback already ran stays in the Map with a
\* dead handle.
\* clearTimeout(checkpointTimeouts.get(key))
clearTimeout(ts, key) ==
    {t \in ts : ~(t.registered /\ TimeoutKey(t.phone, t.checkpoint) = key)}

\* checkpointTimeouts.set(key, setTimeout(...)): the handle stored before is overwritten
setTimeout(ts, phone, checkpoint, due) ==
    {IF t.registered /\ TimeoutKey(t.phone, t.checkpoint) = TimeoutKey(phone, checkpoint)
     THEN [t EXCEPT !.registered = FALSE] ELSE t : t \in ts}
        \cup {[phone |-> phone, checkpoint |-> checkpoint, due |-> due, registered |-> TRUE]}


IsBlankNever(text) == FALSE
\* text.trim() is empty
IsBlank(text) == text \in {"", " "}

EmptyMap == [k \in {} |-> 0]

\* ------------------------------------------------------------------- Init
\* initializeInstanceStats: the stats record of one instance at start
InitialStats ==
    [total_leads |-> 0, active_conversations |-> 0, completed_conversations |-> 0,
     checkpoints_passed |-> 0, timeouts |-> 0, response_rate2 |-> 200,
     health_score |-> 100, blocked |-> FALSE, last_activity |-> 0]

initializeInstanceStats == [n \in InstanceNames |-> InitialStats]

InitialDailyStats(size, t) ==
    [leads_today |-> 0, checkpoints_passed |-> 0, timeouts |-> 0,
     active_now |-> size, last_reset |-> t]

InitState ==
    /\ now = 0
    /\ conversationState = EmptyMap
    /\ checkpointTimeouts = {}
    /\ timers = {}
    /\ instanceStats = initializeInstanceStats
    /\ instanceActive = [n \in InstanceNames |-> TRUE]
    /\ instanceCounter = 0
    /\ instanceRotationCounter = 0
    /\ checkpointHistory = <<>>
    /\ dailyStats = InitialDailyStats(0, 0)
    /\ totalLeadsProcessed = 0
    /\ notifications = <<>>
    /\ lastResult = "none"
    /\ pending = [p \in AllPhones |-> NoCheckpoint]
    /\ resolved = [p \in AllPhones |-> NoCheckpoint]
    /\ deadline = [p \in AllPhones |-> 0]
    /\ fallbackPicks = <<>>

Init == variant \in Variants /\ InitState

\* keep the last Len(INSTANCES) picks
RecordPick(picks, name) ==
    LET all == Append(picks, name)
    IN  IF Len(all) > Len(INSTANCES) THEN Tail(all) ELSE all

\* =================================================== part_001: instance pool
availableInstancesUnfiltered == INSTANCES

\* availableInstances of getNextInstance
availableInstances ==
    SelectSeq(INSTANCES, LAMBDA n : instanceActive[n] /\ ~instanceStats[n].blocked)

\* the instance getNextInstance returns
getNextInstance ==
    IF Len(availableInstances) = 0
    THEN INSTANCES[1]
    ELSE availableInstances[(instanceRotationCounter % Len(availableInstances)) + 1]

\* instanceRotationCounter after getNextInstance
getNextInstanceCounter ==
    IF Len(availableInstances) = 0
    THEN instanceRotationCounter
    ELSE IF instanceRotationCounter + 1 > INSTANCE_ROTATION_RESET
         THEN 0
         ELSE instanceRotationCounter + 1

\* instanceStats after getNextInstance
getNextInstanceStats ==
    IF Len(availableInstances) = 0
    THEN instanceStats
    ELSE [instanceStats EXCEPT ![getNextInstance] =
             [@ EXCEPT !.total_leads = @ + 1,
                       !.active_conversations = @ + 1,
                       !.last_activity = now]]

\* updateInstanceStats(instanceName, event) of part_001, applied to the map stats
updateInstanceStats(stats, instanceName, event) ==
    IF instanceName \notin DOMAIN stats
    THEN stats
    ELSE LET s == stats[instanceName]
             u == CASE event = "checkpoint_passed" ->
                         [s EXCEPT !.checkpoints_passed = @ + 1,
                                   !.response_rate2 = Min(200, @ + 1),
                                   !.health_score = Min(100, @ + 1)]
                    [] event = "timeout" ->
                         [s EXCEPT !.timeouts = @ + 1,
                                   !.response_rate2 = Max(0, @ - 4),
                                   !.health_score = Max(0, @ - 3)]
                    [] event = "conversation_ended" ->
                         [s EXCEPT !.active_conversations = Max(0, @ - 1)]
                    [] event = "blocked" ->
                         [s EXCEPT !.blocked = TRUE, !.health_score = 0]
                    [] OTHER -> s
         IN  [stats EXCEPT ![instanceName] = [u EXCEPT !.last_activity = now]]

\* ============================================= part_001: checkpoint engine
\* the conversation object createConversation stores
NewConversation(instanceName) ==
    [instance |-> instanceName, current_checkpoint |-> NoCheckpoint,
     checkpoints |-> <<>>, total_checkpoints_passed |-> 0,
     waiting_response |-> FALSE, status |-> "active",
     created_at |-> now, last_activity |-> now, expires_at |-> 0]

\* createConversation(phone), getNextInstance included
createConversation(phone) ==
    /\ conversationState' = MapSet(conversationState, phone, NewConversation(getNextInstance))
    /\ instanceRotationCounter' = getNextInstanceCounter
    /\ instanceStats' = getNextInstanceStats
    /\ totalLeadsProcessed' = totalLeadsProcessed + 1
    /\ dailyStats' = [dailyStats EXCEPT !.leads_today = @ + 1,
                                        !.active_now = Cardinality(DOMAIN conversationState')]
    /\ fallbackPicks' = IF Len(availableInstances) = 0
                        THEN RecordPick(fallbackPicks, getNextInstance)
                        ELSE fallbackPicks
    /\ pending' = [pending EXCEPT ![phone] = NoCheckpoint]
    /\ deadline' = [deadline EXCEPT ![phone] = 0]
    /\ resolved' = [resolved EXCEPT ![phone] = NoCheckpoint]

Notification(event, phone, checkpoint, instanceName) ==
    [event |-> event, phone |-> phone, checkpoint |-> checkpoint, instance |-> instanceName]

hasConversationNever(phone) == FALSE

\* conversationState.has(phone) of the creation requests
hasConversation(phone) == phone \in DOMAIN conversationState

\* POST /api/lead/new
LeadNew(phone) ==
    /\ variant = "part_001"
    /\ IF hasConversation(phone)
       THEN /\ notifications' = <<>>
            /\ lastResult' = "existing"
            /\ UNCHANGED <<conversationState, instanceRotationCounter, instanceStats,
                           totalLeadsProcessed, dailyStats, fallbackPicks, pending, deadline, resolved>>
       ELSE /\ createConversation(phone)
            /\ lastResult' = "created"
            /\ notifications' = <<Notification("new_lead", phone, NoCheckpoint, getNextInstance)>>
    /\ UNCHANGED <<variant, now, checkpointTimeouts, timers, instanceActive,
                   instanceCounter, checkpointHistory>>

\* the map and the armed timers after "if has(key) { clearTimeout(get(key)); delete(key) }"
CancelTimers(ts, map, key) == IF key \in map THEN clearTimeout(ts, key) ELSE ts
CancelMap(map, key) == map \ {key}

\* the key activateCheckpoint cancels before arming
activateCancelKey(phone) == TimeoutKey(phone, conversationState[phone].current_checkpoint)

\* activateCheckpoint(phone, checkpointName, {timeout_minutes}) on a stored conversation
activateCheckpoint(phone, checkpointName, timeout) ==
    LET conv == conversationState[phone]
        ts1 == CancelTimers(timers, checkpointTimeouts, activateCancelKey(phone))
        map1 == CancelMap(checkpointTimeouts, activateCancelKey(phone))
    IN  /\ conversationState' = [conversationState EXCEPT ![phone] =
               [conv EXCEPT !.current_checkpoint = checkpointName,
                            !.waiting_response = TRUE,
                            !.last_activity = now]]
        /\ timers' = setTimeout(ts1, phone, checkpointName, now + timeout)
        /\ checkpointTimeouts' = map1 \cup {TimeoutKey(phone, checkpointName)}
        /\ pending' = [pending EXCEPT ![phone] = checkpointName]
        /\ deadline' = [deadline EXCEPT ![phone] = now + timeout]
        /\ resolved' = [resolved EXCEPT ![phone] = NoCheckpoint]

activateCheckpointMissingArmed(phone, checkpointName, timeout) ==
    /\ lastResult' = "NotFound"
    /\ timers' = setTimeout(timers, phone, checkpointName, now + timeout)
    /\ checkpointTimeouts' = checkpointTimeouts \cup {TimeoutKey(phone, checkpointName)}
    /\ UNCHANGED <<conversationState, pending, deadline, resolved>>

\* activateCheckpoint(phone, checkpointName, {timeout_minutes}) without a stored
\* conversation: the early return
activateCheckpointMissing(phone, checkpointName, timeout) ==
    /\ lastResult' = "NotFound"
    /\ UNCHANGED <<conversationState, timers, checkpointTimeouts, pending, deadline, resolved>>

\* POST /api/checkpoint/activate
CheckpointActivate(phone, checkpointName, timeout) ==
    /\ variant = "part_001"
    /\ IF phone \notin DOMAIN conversationState
       THEN activateCheckpointMissing(phone, checkpointName, timeout)
       ELSE /\ activateCheckpoint(phone, checkpointName, timeout)
            /\ lastResult' = "activated"
            /\ Cardinality(timers') <= MaxTimers
    /\ notifications' = <<>>
    /\ UNCHANGED <<variant, now, instanceStats, instanceActive, instanceCounter,
                   instanceRotationCounter, checkpointHistory, dailyStats,
                   totalLeadsProcessed, fallbackPicks>>

\* the staleness guard of handleCheckpointTimeout: TRUE when the callback goes on
handleCheckpointTimeoutGuard(phone, checkpointName) ==
    /\ phone \in DOMAIN conversationState
    /\ conversationState[phone].current_checkpoint = checkpointName

\* handleCheckpointTimeout(phone, checkpointName)
handleCheckpointTimeout(phone, checkpointName) ==
    IF ~handleCheckpointTimeoutGuard(phone, checkpointName)
    THEN /\ notifications' = <<>>
         /\ lastResult' = "stale"
         /\ UNCHANGED <<conversationState, instanceStats, dailyStats, pending, deadline>>
    ELSE /\ conversationState' = [conversationState EXCEPT ![phone] =
                [@ EXCEPT !.waiting_response = FALSE, !.status = "timeout"]]
         /\ instanceStats' = updateInstanceStats(instanceStats,
                                 conversationState[phone].instance, "timeout")
         /\ dailyStats' = [dailyStats EXCEPT !.timeouts = @ + 1]
         /\ pending' = [pending EXCEPT ![phone] = NoCheckpoint]
         /\ deadline' = [deadline EXCEPT ![phone] = 0]
         /\ lastResult' = "timeout"
         /\ notifications' = <<Notification("checkpoint_timeout", phone, checkpointName,
                                            conversationState[phone].instance)>>

\* the setTimeout callback of timer t runs
TimerFire(t) ==
    /\ variant = "part_001"
    /\ t \in timers
    /\ t.due <= now
    /\ timers' = timers \ {t}
    /\ UNCHANGED checkpointTimeouts
    /\ handleCheckpointTimeout(t.phone, t.checkpoint)
    /\ UNCHANGED <<variant, now, instanceActive, instanceCounter, instanceRotationCounter,
                   checkpointHistory, totalLeadsProcessed, resolved, fallbackPicks>>

processCheckpointResponseResultNoWaitingCheck(phone) ==
    IF phone \notin DOMAIN conversationState THEN "NotFound" ELSE "ok"

\* the checks of processCheckpointResponse: "ok" when the response resolves
processCheckpointResponseResult(phone) ==
    IF phone \notin DOMAIN conversationState THEN "NotFound"
    ELSE IF ~conversationState[phone].waiting_response THEN "NotWaiting"
    ELSE "ok"

\* the entry processCheckpointResponse puts in front of checkpointHistory
HistoryEntry(phone, checkpointName, message, instanceName) ==
    [phone |-> phone, checkpoint |-> checkpointName, response |-> message,
     instance |-> instanceName, timestamp |-> now]

\* checkpointHistory after unshift(entry) and the cut to the newest 500
HISTORY_CAP == 500
historyUnshift(history, entry) ==
    LET all == <<entry>> \o history
    IN  IF Len(all) > HISTORY_CAP THEN SubSeq(all, 1, HISTORY_CAP) ELSE all

resolvedConversationStillWaiting(conv, message) ==
    [conv EXCEPT !.checkpoints = Append(@, [name |-> conv.current_checkpoint,
                                            response |-> message]),
                 !.last_activity = now]

\* the conversation after a resolving response
resolvedConversation(conv, message) ==
    [conv EXCEPT !.checkpoints = Append(@, [name |-> conv.current_checkpoint,
                                            response |-> message]),
                 !.waiting_response = FALSE,
                 !.last_activity = now]

\* processCheckpointResponse(phone, message) on a waiting conversation
processCheckpointResponse(phone, message) ==
    LET conv == conversationState[phone]
        checkpointName == conv.current_checkpoint
        timeoutKey == TimeoutKey(phone, checkpointName)
    IN  /\ timers' = CancelTimers(timers, checkpointTimeouts, timeoutKey)
        /\ checkpointTimeouts' = CancelMap(checkpointTimeouts, timeoutKey)
        /\ conversationState' = [conversationState EXCEPT ![phone] =
                                    resolvedConversation(conv, message)]
        /\ instanceStats' = updateInstanceStats(instanceStats, conv.instance,
                                                "checkpoint_passed")
        /\ dailyStats' = [dailyStats EXCEPT !.checkpoints_passed = @ + 1]
        /\ checkpointHistory' = historyUnshift(checkpointHistory,
                                    HistoryEntry(phone, checkpointName, message, conv.instance))
        /\ pending' = [pending EXCEPT ![phone] = NoCheckpoint]
        /\ deadline' = [deadline EXCEPT ![phone] = 0]
        /\ resolved' = [resolved EXCEPT ![phone] = checkpointName]

\* what processCheckpointResponse returns after a resolving response
processCheckpointResponseReturn(phone, message) ==
    [success |-> TRUE,
     checkpoint |-> conversationState[phone].current_checkpoint,
     response |-> message,
     instance |-> conversationState[phone].instance]

\* POST /webhook/evolution of part_001
WebhookEvolution(phone, text, fromMe) ==
    /\ variant = "part_001"
    /\ IF fromMe \/ IsBlank(text)
       THEN /\ notifications' = <<>>
            /\ lastResult' = "ignored"
            /\ UNCHANGED <<conversationState, checkpointTimeouts, timers, instanceStats,
                           instanceRotationCounter, checkpointHistory, dailyStats,
                           totalLeadsProcessed, pending, deadline, resolved, fallbackPicks>>
       ELSE IF phone \notin DOMAIN conversationState
       THEN /\ createConversation(phone)
            /\ lastResult' = "created"
            /\ notifications' = <<Notification("new_lead", phone, NoCheckpoint,
                                               getNextInstance)>>
            /\ UNCHANGED <<checkpointTimeouts, timers, checkpointHistory>>
       ELSE IF processCheckpointResponseResult(phone) # "ok"
       THEN /\ notifications' = <<>>
            /\ lastResult' = processCheckpointResponseResult(phone)
            /\ UNCHANGED <<conversationState, checkpointTimeouts, timers, instanceStats,
                           instanceRotationCounter, checkpointHistory, dailyStats,
                           totalLeadsProcessed, pending, deadline, resolved, fallbackPicks>>
       ELSE /\ Len(conversationState[phone].checkpoints) < MaxPassed
            /\ processCheckpointResponse(phone, text)
            /\ lastResult' = "passed"
            /\ notifications' = <<Notification("checkpoint_passed", phone,
                                     conversationState[phone].current_checkpoint,
                                     conversationState[phone].instance)>>
            /\ UNCHANGED <<instanceRotationCounter, totalLeadsProcessed, fallbackPicks>>
    /\ UNCHANGED <<variant, now, instanceActive, instanceCounter>>

\* POST /api/instance/block
InstanceBlock(instanceName) ==
    /\ variant = "part_001"
    /\ instanceName \in InstanceNames
    /\ instanceActive' = [instanceActive EXCEPT ![instanceName] = FALSE]
    /\ instanceStats' = updateInstanceStats(instanceStats, instanceName, "blocked")
    /\ notifications' = <<>>
    /\ lastResult' = "none"
    /\ UNCHANGED <<variant, now, conversationState, checkpointTimeouts, timers,
                   instanceCounter, instanceRotationCounter, checkpointHistory, dailyStats,
                   totalLeadsProcessed, pending, deadline, resolved, fallbackPicks>>

\* ===================================================== part_001: the sweeper
\* the test of cleanupOldData that removes a conversation
cleanupOldDataRemoves(conv) == now - conv.last_activity > DATA_RETENTION_TIME

pruneHistoryKeepAll(history, retention) == history

\* history.filter(h => h.timestamp > now - retention)
pruneHistory(history, retention) ==
    SelectSeq(history, LAMBDA h : h.timestamp > now - retention)

\* the loop of cleanupOldData over the phones in todo; the result of a pass does not
\* depend on the order in which the Map is walked
RECURSIVE cleanupLoop(_, _, _, _, _)
cleanupLoop(todo, convs, ts, map, stats) ==
    IF todo = {}
    THEN [convs |-> convs, ts |-> ts, map |-> map, stats |-> stats]
    ELSE LET phone == CHOOSE p \in todo : TRUE
             conv == convs[phone]
             timeoutKey == TimeoutKey(phone, conv.current_checkpoint)
         IN  IF cleanupOldDataRemoves(conv)
             THEN cleanupLoop(todo \ {phone}, MapDelete(convs, phone),
                              CancelTimers(ts, map, timeoutKey),
                              CancelMap(map, timeoutKey),
                              updateInstanceStats(stats, conv.instance, "conversation_ended"))
             ELSE cleanupLoop(todo \ {phone}, convs, ts, map, stats)

\* cleanupOldData()
cleanupOldData ==
    /\ variant = "part_001"
    /\ LET r == cleanupLoop(DOMAIN conversationState, conversationState, timers,
                            checkpointTimeouts, instanceStats)
           size == Cardinality(DOMAIN r.convs)
       IN  /\ conversationState' = r.convs
           /\ timers' = r.ts
           /\ checkpointTimeouts' = r.map
           /\ instanceStats' = r.stats
           /\ dailyStats' = IF dailyStats.last_reset # now
                            THEN InitialDailyStats(size, now)
                            ELSE [dailyStats EXCEPT !.active_now = size]
    /\ checkpointHistory' = pruneHistory(checkpointHistory, DATA_RETENTION_TIME)
    /\ notifications' = <<>>
    /\ lastResult' = "swept"
    /\ resolved' = [p \in AllPhones |-> IF p \in DOMAIN conversationState'
                                      THEN resolved[p] ELSE NoCheckpoint]
    /\ UNCHANGED <<variant, now, instanceActive, instanceCounter, instanceRotationCounter,
                   totalLeadsProcessed, pending, deadline, fallbackPicks>>

\* ===================================================== index.js: instance pool
\* updateInstanceStats(instanceName, action) of index.js, applied to the map stats
updateInstanceStatsIdx(stats, instanceName, action) ==
    IF instanceName \notin DOMAIN stats
    THEN stats
    ELSE LET s == stats[instanceName]
         IN  [stats EXCEPT ![instanceName] =
                 CASE action = "new_lead" ->
                         [s EXCEPT !.total_leads = @ + 1,
                                   !.active_conversations = @ + 1,
                                   !.last_activity = now]
                   [] action = "response_received" ->
                         [s EXCEPT !.response_rate2 = Min(200, @ + 1),
                                   !.health_score = Min(100, @ + 1)]
                   [] action = "no_response" ->
                         [s EXCEPT !.response_rate2 = Max(0, @ - 4),
                                   !.health_score = Max(0, @ - 5)]
                   [] action = "conversation_complete" ->
                         [s EXCEPT !.active_conversations = @ - 1,
                                   !.completed_conversations = @ + 1]
                   [] action = "blocked" ->
                         [s EXCEPT !.blocked = TRUE, !.health_score = 0]
                   [] OTHER -> s]

\* 20 * finalScore of getBestInstance (weights 0.4, 0.3, 0.2, 0.1)
finalScore20(stats) ==
    LET loadFactor == Max(0, 100 - (stats.active_conversations * 2))
        timeFactor == IF now - stats.last_activity < RECENT_WINDOW THEN 10 ELSE 0
    IN  (8 * loadFactor) + (3 * stats.response_rate2) + (4 * stats.health_score)
            + (2 * timeFactor)

\* the for loop of getBestInstance from position i on
RECURSIVE getBestLoop(_, _, _)
getBestLoop(i, bestInstance, bestScore) ==
    IF i > Len(INSTANCES)
    THEN bestInstance
    ELSE LET stats == instanceStats[INSTANCES[i]]
         IN  IF stats.blocked
             THEN getBestLoop(i + 1, bestInstance, bestScore)
             ELSE IF finalScore20(stats) > bestScore
                  THEN getBestLoop(i + 1, INSTANCES[i], finalScore20(stats))
                  ELSE getBestLoop(i + 1, bestInstance, bestScore)

\* what the loop of getBestInstance leaves in bestInstance ("" for null)
bestOfLoop == getBestLoop(1, "", -20)

\* the instance getBestInstance returns
getBestInstance ==
    IF bestOfLoop = ""
    THEN INSTANCES[(instanceCounter % Len(INSTANCES)) + 1]
    ELSE bestOfLoop

\* ================================================== index.js: checkpoint engine
\* createConversationState
createConversationState(instanceName) ==
    [NewConversation(instanceName) EXCEPT !.expires_at = now + CHECKPOINT_TIMEOUT]

\* POST /api/start-conversation; in part_000 the reply calls the undefined
\* getInstanceApiKey after the conversation was stored, and the request fails
StartConversation(phone) ==
    /\ variant \in IndexFamily
    /\ IF hasConversation(phone)
       THEN /\ lastResult' = "existing"
            /\ UNCHANGED <<conversationState, instanceStats, instanceCounter, fallbackPicks,
                           pending, deadline, resolved>>
       ELSE /\ lastResult' = IF variant = "part_000" THEN "error" ELSE "created"
            /\ conversationState' = MapSet(conversationState, phone,
                                           createConversationState(getBestInstance))
            /\ instanceStats' = updateInstanceStatsIdx(instanceStats, getBestInstance,
                                                       "new_lead")
            /\ instanceCounter' = IF bestOfLoop = "" THEN instanceCounter + 1
                                  ELSE instanceCounter
            /\ fallbackPicks' = IF bestOfLoop = ""
                                THEN RecordPick(fallbackPicks, getBestInstance)
                                ELSE fallbackPicks
            /\ pending' = [pending EXCEPT ![phone] = NoCheckpoint]
            /\ deadline' = [deadline EXCEPT ![phone] = 0]
            /\ resolved' = [resolved EXCEPT ![phone] = NoCheckpoint]
    /\ notifications' = <<>>
    /\ UNCHANGED <<variant, now, checkpointTimeouts, timers, instanceActive,
                   instanceRotationCounter, checkpointHistory, dailyStats,
                   totalLeadsProcessed>>

activatedConversationIdxReassigned(conv, checkpointId) ==
    [conv EXCEPT !.instance = getBestInstance,
                 !.current_checkpoint = checkpointId,
                 !.waiting_response = TRUE,
                 !.last_activity = now,
                 !.expires_at = now + CHECKPOINT_TIMEOUT]

\* the conversation after activateCheckpoint of index.js
activatedConversationIdx(conv, checkpointId) ==
    [conv EXCEPT !.current_checkpoint = checkpointId,
                 !.waiting_response = TRUE,
                 !.last_activity = now,
                 !.expires_at = now + CHECKPOINT_TIMEOUT]

\* POST /api/activate-checkpoint
ActivateCheckpointIdx(phone, checkpointId) ==
    /\ variant \in IndexFamily
    /\ IF phone \notin DOMAIN conversationState
       THEN /\ lastResult' = "NotFound"
            /\ UNCHANGED <<conversationState, pending, deadline, resolved>>
       ELSE /\ lastResult' = "activated"
            /\ conversationState' = [conversationState EXCEPT ![phone] =
                                        activatedConversationIdx(@, checkpointId)]
            /\ pending' = [pending EXCEPT ![phone] = checkpointId]
            /\ deadline' = [deadline EXCEPT ![phone] = now + CHECKPOINT_TIMEOUT]
            /\ resolved' = [resolved EXCEPT ![phone] = NoCheckpoint]
    /\ notifications' = <<>>
    /\ UNCHANGED <<variant, now, checkpointTimeouts, timers, instanceStats, instanceActive,
                   instanceCounter, instanceRotationCounter, checkpointHistory, dailyStats,
                   totalLeadsProcessed, fallbackPicks>>

\* the checks of processClientResponse: "ok" when the response resolves
processClientResponseResult(phone) ==
    IF phone \notin DOMAIN conversationState THEN "NotFound"
    ELSE IF \/ ~conversationState[phone].waiting_response
            \/ conversationState[phone].current_checkpoint = NoCheckpoint
         THEN "NotWaiting"
         ELSE "ok"

\* the conversation after a resolving response (index.js)
resolvedConversationIdx(conv, message) ==
    [conv EXCEPT !.checkpoints = Append(@, [name |-> conv.current_checkpoint,
                                            response |-> message]),
                 !.total_checkpoints_passed = @ + 1,
                 !.waiting_response = FALSE,
                 !.last_activity = now,
                 !.current_checkpoint = NoCheckpoint]

\* processClientResponse(clientPhone, responseMessage) on a waiting conversation
processClientResponse(phone, message) ==
    LET conv == conversationState[phone]
    IN  /\ conversationState' = [conversationState EXCEPT ![phone] =
                                    resolvedConversationIdx(conv, message)]
        /\ instanceStats' = updateInstanceStatsIdx(instanceStats, conv.instance,
                                                   "response_received")
        /\ checkpointHistory' = <<HistoryEntry(phone, conv.current_checkpoint, message,
                                               conv.instance)>> \o checkpointHistory
        /\ pending' = [pending EXCEPT ![phone] = NoCheckpoint]
        /\ deadline' = [deadline EXCEPT ![phone] = 0]
        /\ resolved' = [resolved EXCEPT ![phone] = conv.current_checkpoint]

\* what processClientResponse returns after a resolving response
processClientResponseReturn(phone, message) ==
    [success |-> TRUE,
     checkpoint_passed |-> conversationState[phone].current_checkpoint,
     client |-> phone,
     response |-> message,
     total_passed |-> conversationState[phone].total_checkpoints_passed + 1]

\* the sendToN8N call of the webhook after a resolving response
sendCheckpointPassed(phone) ==
    <<Notification("checkpoint_passed", phone, conversationState[phone].current_checkpoint,
                   conversationState[phone].instance)>>

\* POST /webhook/evolution of index.js; in part_000 the event data read state.instance
\* of an undeclared state and getInstanceApiKey, so the handler throws before sendToN8N
WebhookEvolutionIdx(phone, text, fromMe) ==
    /\ variant \in IndexFamily
    /\ IF (~fromMe) /\ ~IsBlank(text) /\ processClientResponseResult(phone) = "ok"
       THEN /\ Len(conversationState[phone].checkpoints) < MaxPassed
            /\ processClientResponse(phone, text)
            /\ lastResult' = IF variant = "part_000" THEN "error" ELSE "passed"
            /\ notifications' = IF variant = "part_000" THEN <<>>
                                 ELSE sendCheckpointPassed(phone)
       ELSE /\ notifications' = <<>>
            /\ lastResult' = IF fromMe \/ IsBlank(text) THEN "ignored"
                             ELSE processClientResponseResult(phone)
            /\ UNCHANGED <<conversationState, instanceStats, checkpointHistory,
                           pending, deadline, resolved>>
    /\ UNCHANGED <<variant, now, checkpointTimeouts, timers, instanceActive, instanceCounter,
                   instanceRotationCounter, dailyStats, totalLeadsProcessed, fallbackPicks>>

\* ======================================================== index.js: the sweeper
\* the test of cleanupExpiredCheckpoints that expires a checkpoint
cleanupExpires(conv) == now > conv.expires_at /\ conv.waiting_response

\* the test of cleanupExpiredCheckpoints that deletes a conversation
cleanupDeletes(conv) == now - conv.created_at > DATA_RETENTION_TIME_Idx

expiredConversationStillWaiting(conv) ==
    [conv EXCEPT !.status = "expired", !.current_checkpoint = NoCheckpoint]

\* the conversation after the expiry branch
expiredConversation(conv) ==
    [conv EXCEPT !.status = "expired", !.waiting_response = FALSE,
                 !.current_checkpoint = NoCheckpoint]

\* the loop of cleanupExpiredCheckpoints over the phones in todo; the result of a pass
\* does not depend on the order in which the Map is walked
RECURSIVE cleanupExpiredLoop(_, _, _, _)
cleanupExpiredLoop(todo, convs, stats, expired) ==
    IF todo = {}
    THEN [convs |-> convs, stats |-> stats, expired |-> expired]
    ELSE LET phone == CHOOSE p \in todo : TRUE
             conv == convs[phone]
             exp == cleanupExpires(conv)
             convs1 == IF exp THEN [convs EXCEPT ![phone] = expiredConversation(conv)]
                       ELSE convs
             stats1 == IF exp
                       THEN updateInstanceStatsIdx(
                                updateInstanceStatsIdx(stats, conv.instance, "no_response"),
                                conv.instance, "conversation_complete")
                       ELSE stats
             expired1 == IF exp THEN expired \cup {phone} ELSE expired
         IN  IF cleanupDeletes(conv)
             THEN cleanupExpiredLoop(todo \ {phone}, MapDelete(convs1, phone), stats1,
                                     expired1)
             ELSE cleanupExpiredLoop(todo \ {phone}, convs1, stats1, expired1)

\* cleanupExpiredCheckpoints()
cleanupExpiredCheckpoints ==
    /\ variant \in IndexFamily
    /\ LET r == cleanupExpiredLoop(DOMAIN conversationState, conversationState,
                                   instanceStats, {})
       IN  /\ conversationState' = r.convs
           /\ instanceStats' = r.stats
           /\ pending' = [p \in AllPhones |-> IF p \in r.expired THEN NoCheckpoint
                                           ELSE pending[p]]
           /\ deadline' = [p \in AllPhones |-> IF p \in r.expired THEN 0 ELSE deadline[p]]
    /\ checkpointHistory' = pruneHistory(checkpointHistory, DATA_RETENTION_TIME_Idx)
    /\ lastResult' = "swept"
    /\ resolved' = [p \in AllPhones |-> IF p \in DOMAIN conversationState'
                                      THEN resolved[p] ELSE NoCheckpoint]
    /\ notifications' = <<>>
    /\ UNCHANGED <<variant, now, checkpointTimeouts, timers, instanceActive, instanceCounter,
                   instanceRotationCounter, dailyStats, totalLeadsProcessed, fallbackPicks>>

\* ================================================================= notifier
notifyRetry(ok) == IF ok THEN <<>> ELSE notifications

\* the notifier calls still to be made once the HTTP call has settled: the result of
\* notifyN8N / sendToN8N is only logged, a failed call is not repeated
notifyAgain(ok) == <<>>

\* the HTTP call of notifyN8N (part_001) / sendToN8N (index.js) settles, with success
\* or with an error that the function catches
notifyN8N(ok) ==
    /\ variant \in Variants
    /\ notifications # <<>>
    /\ notifications' = notifyAgain(ok)
    /\ lastResult' = IF ok THEN "notified" ELSE "notify_failed"
    /\ UNCHANGED <<variant, now, conversationState, checkpointTimeouts, timers, instanceStats,
                   instanceActive, instanceCounter, instanceRotationCounter,
                   checkpointHistory, dailyStats, totalLeadsProcessed, pending, deadline,
                   resolved, fallbackPicks>>

\* ==================================================================== clock
\* time passes; a due setTimeout callback runs before the clock moves on
Tick(maxTime) ==
    /\ now < maxTime
    /\ \A t \in timers : t.due > now
    /\ now' = now + 1
    /\ notifications' = <<>>
    /\ lastResult' = "none"
    /\ UNCHANGED <<variant, conversationState, checkpointTimeouts, timers, instanceStats,
                   instanceActive, instanceCounter, instanceRotationCounter,
                   checkpointHistory, dailyStats, totalLeadsProcessed, pending, deadline, resolved,
                   fallbackPicks>>

\* ----------------------------------------------------------- specifications
\* One client, every request of both servers except the operator's block.
Next ==
    \/ \E phone \in Phones : LeadNew(phone)
    \/ \E phone \in Phones, checkpointName \in CheckpointNames, timeout \in TimeoutOptions :
          CheckpointActivate(phone, checkpointName, timeout)
    \/ \E phone \in Phones, text \in Messages, fromMe \in BOOLEAN :
          WebhookEvolution(phone, text, fromMe)
    \/ \E t \in timers : TimerFire(t)
    \/ cleanupOldData
    \/ \E phone \in Phones : StartConversation(phone)
    \/ \E phone \in Phones, checkpointId \in CheckpointNames :
          ActivateCheckpointIdx(phone, checkpointId)
    \/ \E phone \in Phones, text \in Messages, fromMe \in BOOLEAN :
          WebhookEvolutionIdx(phone, text, fromMe)
    \/ cleanupExpiredCheckpoints
    \/ \E ok \in BOOLEAN : notifyN8N(ok)
    \/ Tick(MaxTime)

Spec == Init /\ [][Next]_vars

\* part_001 with two clients whose timer keys can coincide.
InitPair == Init /\ variant = "part_001"

NextPair ==
    \/ \E phone \in PairPhones : LeadNew(phone)
    \/ \E act \in PairActivations : CheckpointActivate(act[1], act[2], act[3])
    \/ WebhookEvolution("a", "yes", FALSE)
    \/ \E t \in timers : TimerFire(t)
    \/ cleanupOldData
    \/ Tick(MaxTimePair)

SpecPair == InitPair /\ [][NextPair]_vars

\* The instance pool: several clients, the operator blocks instances.
NextPool ==
    \/ \E phone \in PoolPhones : LeadNew(phone)
    \/ \E phone \in PoolPhones : WebhookEvolution(phone, "yes", FALSE)
    \/ \E instanceName \in InstanceNames : InstanceBlock(instanceName)
    \/ cleanupOldData
    \/ \E phone \in PoolPhones : StartConversation(phone)
    \/ cleanupExpiredCheckpoints
    \/ Tick(MaxTimePool)

SpecPool == Init /\ [][NextPool]_vars

\* part_000 with one client.
Init000 == variant = "part_000" /\ InitState

Next000 ==
    \/ \E phone \in Phones : StartConversation(phone)
    \/ \E phone \in Phones, checkpointId \in CheckpointNames :
          ActivateCheckpointIdx(phone, checkpointId)
    \/ \E phone \in Phones, text \in Messages, fromMe \in BOOLEAN :
          WebhookEvolutionIdx(phone, text, fromMe)
    \/ cleanupExpiredCheckpoints
    \/ Tick(MaxTime)

Spec000 == Init000 /\ [][Next000]_vars

\* part_001 with two clients whose timer keys coincide and whose timeouts are shorter
\* than the retention time.
LostActivations == {<<"a", "b_c", 1>>, <<"a_b", "c", 1>>}

NextLost ==
    \/ \E phone \in PairPhones : LeadNew(phone)
    \/ \E act \in LostActivations : CheckpointActivate(act[1], act[2], act[3])
    \/ WebhookEvolution("a", "yes", FALSE)
    \/ \E t \in timers : TimerFire(t)
    \/ cleanupOldData
    \/ Tick(MaxTimeLost)

SpecLost == InitPair /\ [][NextLost]_vars

\* Both servers after the client "b" has been created on the first instance and has
\* resolved the checkpoint "c" HISTORY_CAP times, all at clock value 0: the global
\* history holds HISTORY_CAP entries when the client of Next starts.
FilledHistory(k) ==
    [i \in 1..k |-> [phone |-> "b", checkpoint |-> "c", response |-> "yes",
                     instance |-> INSTANCES[1], timestamp |-> 0]]

\* the conversation of "b" after k resolves
FilledConversation(k) ==
    [instance |-> INSTANCES[1],
     current_checkpoint |-> IF variant = "part_001" THEN "c" ELSE NoCheckpoint,
     checkpoints |-> [i \in 1..k |-> [name |-> "c", response |-> "yes"]],
     total_checkpoints_passed |-> IF variant = "part_001" THEN 0 ELSE k,
     waiting_response |-> FALSE, status |-> "active", created_at |-> 0,
     last_activity |-> 0,
     expires_at |-> IF variant = "part_001" THEN 0 ELSE CHECKPOINT_TIMEOUT]

\* the stats of the first instance after the creation of "b" and k resolves
FilledStats(k) ==
    [InitialStats EXCEPT !.total_leads = 1, !.active_conversations = 1,
                         !.checkpoints_passed = IF variant = "part_001" THEN k ELSE 0]

\* the state after the creation of "b" and k resolves
FilledState(k) ==
    /\ now = 0
    /\ conversationState = [p \in {"b"} |-> FilledConversation(k)]
    /\ checkpointTimeouts = {}
    /\ timers = {}
    /\ instanceStats = [initializeInstanceStats EXCEPT ![INSTANCES[1]] = FilledStats(k)]
    /\ instanceActive = [n \in InstanceNames |-> TRUE]
    /\ instanceCounter = 0
    /\ instanceRotationCounter = IF variant = "part_001" THEN 1 ELSE 0
    /\ checkpointHistory = FilledHistory(k)
    /\ dailyStats = IF variant = "part_001"
                    THEN [InitialDailyStats(1, 0) EXCEPT !.leads_today = 1,
                                                         !.checkpoints_passed = k]
                    ELSE InitialDailyStats(0, 0)
    /\ totalLeadsProcessed = IF variant = "part_001" THEN 1 ELSE 0
    /\ notifications = <<>>
    /\ lastResult = "notified"
    /\ pending = [p \in AllPhones |-> NoCheckpoint]
    /\ resolved = [p \in AllPhones |-> IF p = "b" THEN "c" ELSE NoCheckpoint]
    /\ deadline = [p \in AllPhones |-> 0]
    /\ fallbackPicks = <<>>

InitCap == variant \in Variants /\ FilledState(HISTORY_CAP)

SpecCap == InitCap /\ [][Next]_vars

\* The stats table alone: any sequence of response, timeout / no-response and blocked
\* events on the first instance.
StatsEventNames ==
    IF variant = "part_001" THEN {"checkpoint_passed", "timeout", "blocked"}
    ELSE {"response_received", "no_response", "blocked"}

\* one call updateInstanceStats(instanceName, event)
StatsEvent(instanceName, event) ==
    /\ event \in StatsEventNames
    /\ instanceStats' = IF variant = "part_001"
                        THEN updateInstanceStats(instanceStats, instanceName, event)
                        ELSE updateInstanceStatsIdx(instanceStats, instanceName, event)
    /\ instanceStats'[instanceName].timeouts <= MaxStatsTimeouts
    /\ instanceStats'[instanceName].checkpoints_passed <= MaxStatsPassed
    /\ notifications' = <<>>
    /\ lastResult' = "none"
    /\ UNCHANGED <<variant, now, conversationState, checkpointTimeouts, timers,
                   instanceActive, instanceCounter, instanceRotationCounter,
                   checkpointHistory, dailyStats, totalLeadsProcessed, pending, deadline,
                   resolved, fallbackPicks>>

NextStats ==
    \E event \in {"checkpoint_passed", "timeout", "response_received", "no_response",
                   "blocked"} : StatsEvent(INSTANCES[1], event)

SpecStats == Init /\ [][NextStats]_vars

\* One client with one checkpoint name; time passes, due timer callbacks run and the
\* periodic sweeper keeps running (setTimeout and setInterval of the event loop).
TimerCallback == \E t \in timers : TimerFire(t)

NextLive ==
    \/ LeadNew("a")
    \/ \E timeout \in TimeoutOptions : CheckpointActivate("a", "c", timeout)
    \/ WebhookEvolution("a", "yes", FALSE)
    \/ TimerCallback
    \/ cleanupOldData
    \/ StartConversation("a")
    \/ ActivateCheckpointIdx("a", "c")
    \/ WebhookEvolutionIdx("a", "yes", FALSE)
    \/ cleanupExpiredCheckpoints
    \/ Tick(MaxTimeLive)

SpecLive ==
    /\ Init
    /\ [][NextLive]_vars
    /\ WF_vars(Tick(MaxTimeLive))
    /\ WF_vars(TimerCallback)
    /\ WF_vars(cleanupOldData)
    /\ WF_vars(cleanupExpiredCheckpoints)

\* part_001 after k leads that arrived at clock value 0 and were all removed by the
\* sweeper pass at the first clock value past the retention time: the rotation counter
\* stands at k.
RotatedStats(k, i) ==
    LET leads == Cardinality({j \in 0..(k - 1) : j % Len(INSTANCES) = i - 1})
    IN  [InitialStats EXCEPT !.total_leads = leads,
                             !.last_activity = IF leads > 0 THEN DATA_RETENTION_TIME + 1
                                               ELSE 0]

RotatedState(k) ==
    /\ variant = "part_001"
    /\ now = DATA_RETENTION_TIME + 1
    /\ conversationState = EmptyMap
    /\ checkpointTimeouts = {}
    /\ timers = {}
    /\ instanceStats = [n \in InstanceNames |->
                           RotatedStats(k, CHOOSE i \in 1..Len(INSTANCES) : INSTANCES[i] = n)]
    /\ instanceActive = [n \in InstanceNames |-> TRUE]
    /\ instanceCounter = 0
    /\ instanceRotationCounter = k
    /\ checkpointHistory = <<>>
    /\ dailyStats = InitialDailyStats(0, DATA_RETENTION_TIME + 1)
    /\ totalLeadsProcessed = k
    /\ notifications = <<>>
    /\ lastResult = "swept"
    /\ pending = [p \in AllPhones |-> NoCheckpoint]
    /\ resolved = [p \in AllPhones |-> NoCheckpoint]
    /\ deadline = [p \in AllPhones |-> 0]
    /\ fallbackPicks = <<>>

\* the rotation counter is two selections away from its reset
InitRotation == RotatedState(INSTANCE_ROTATION_RESET - 1)

NextRotation ==
    \/ \E phone \in PoolPhones : LeadNew(phone)
    \/ \E phone \in PoolPhones : WebhookEvolution(phone, "yes", FALSE)
    \/ cleanupOldData
    \/ Tick(MaxTimeRotation)

SpecRotation == InitRotation /\ [][NextRotation]_vars

\* One client under every request of both servers, while the operator blocks instances.
NextFrame ==
    \/ LeadNew("a")
    \/ \E timeout \in TimeoutOptions : CheckpointActivate("a", "c", timeout)
    \/ WebhookEvolution("a", "yes", FALSE)
    \/ TimerCallback
    \/ \E instanceName \in InstanceNames : InstanceBlock(instanceName)
    \/ cleanupOldData
    \/ StartConversation("a")
    \/ ActivateCheckpointIdx("a", "c")
    \/ WebhookEvolutionIdx("a", "yes", FALSE)
    \/ cleanupExpiredCheckpoints
    \/ Tick(MaxTime)

SpecFrame == Init /\ [][NextFrame]_vars

\* ================================================================== claims
\* the retention horizon of the running server
RetentionHorizon == IF variant \in IndexFamily THEN DATA_RETENTION_TIME_Idx ELSE DATA_RETENTION_TIME

\* the armed timers of a client
TimersOf(ts, phone) == {t \in ts : t.phone = phone}

\* a non-echo, non-empty inbound message of the client reaches the server
InboundResponse(phone, text) ==
    \/ WebhookEvolution(phone, text, FALSE)
    \/ WebhookEvolutionIdx(phone, text, FALSE)

\* a sweeper pass
SweeperPass == cleanupOldData \/ cleanupExpiredCheckpoints

\* C1: in every reachable state each client has at most one armed timeout timer.
C1_AtMostOneArmedTimerPerClient ==
    \A phone \in AllPhones : Cardinality(TimersOf(timers, phone)) <= 1

\* C2: a timeout callback for (client, K) that runs after a resolve of K has completed
\* (the conversation is no longer waiting) changes neither the conversation, nor the
\* instance stats, nor the daily counters, and emits no notification.
C2_TimeoutAfterResolveIsNoOp ==
    [][\A t \in timers :
          (/\ TimerFire(t)
           /\ t.phone \in DOMAIN conversationState
           /\ resolved[t.phone] = t.checkpoint
           /\ ~conversationState[t.phone].waiting_response)
          => (/\ UNCHANGED <<conversationState, instanceStats, dailyStats>>
              /\ notifications' = <<>>)]_vars

\* C3: a response of a client whose checkpoint K was activated, with no timeout and no
\* re-activation since, resolves it: one entry (K, text) is appended to the local
\* history and put in the global history, and the conversation stops waiting.
C3_ResolveAfterActivateSucceeds ==
    [][\A phone \in AllPhones, text \in Messages :
          (/\ InboundResponse(phone, text)
           /\ ~IsBlank(text)
           /\ pending[phone] # NoCheckpoint)
          => (/\ phone \in DOMAIN conversationState
              /\ phone \in DOMAIN conversationState'
              /\ lastResult' = "passed"
              /\ conversationState'[phone].checkpoints =
                    Append(conversationState[phone].checkpoints,
                           [name |-> pending[phone], response |-> text])
              /\ ~conversationState'[phone].waiting_response
              /\ Len(checkpointHistory') = Len(checkpointHistory) + 1
              /\ Tail(checkpointHistory') = checkpointHistory
              /\ Head(checkpointHistory').phone = phone
              /\ Head(checkpointHistory').checkpoint = pending[phone]
              /\ Head(checkpointHistory').response = text)]_vars

\* C4: a response for a stored conversation that is not waiting returns NotWaiting and
\* changes nothing, and no notification is emitted.
C4_NotWaitingChangesNothing ==
    [][\A phone \in AllPhones, text \in Messages :
          (/\ InboundResponse(phone, text)
           /\ ~IsBlank(text)
           /\ phone \in DOMAIN conversationState
           /\ ~conversationState[phone].waiting_response)
          => (/\ lastResult' = "NotWaiting"
              /\ notifications' = <<>>
              /\ UNCHANGED <<conversationState, checkpointHistory, instanceStats, timers,
                             checkpointTimeouts, dailyStats, totalLeadsProcessed,
                             instanceCounter, instanceRotationCounter, instanceActive>>)]_vars

C4_Witness ==
    /\ lastResult = "NotWaiting"
    /\ \E phone \in DOMAIN conversationState :
          conversationState[phone].status \in {"timeout", "expired"}

\* C5: a stored conversation is waiting iff its current checkpoint is non-null and no
\* resolving response and no timeout happened since that checkpoint was activated.
C5_WaitingIffPendingCheckpoint ==
    \A phone \in DOMAIN conversationState :
        conversationState[phone].waiting_response
            <=> (/\ conversationState[phone].current_checkpoint # NoCheckpoint
                 /\ pending[phone] # NoCheckpoint)

C5_Witness ==
    \E phone \in DOMAIN conversationState :
        /\ conversationState[phone].current_checkpoint # NoCheckpoint
        /\ resolved[phone] # NoCheckpoint
        /\ ~conversationState[phone].waiting_response

\* C6: from a successful resolve until the next activate the conversation is idle: its
\* current checkpoint is null and it is not waiting.
C6_IdleAfterResolve ==
    \A phone \in DOMAIN conversationState :
        resolved[phone] # NoCheckpoint
            => (/\ conversationState[phone].current_checkpoint = NoCheckpoint
                /\ ~conversationState[phone].waiting_response)

\* the instance is blocked or inactive
Unavailable(instanceName) ==
    instanceStats[instanceName].blocked \/ ~instanceActive[instanceName]

\* C7: a selection never returns a blocked instance while another instance is active
\* and not blocked.
C7_BlockedNeverSelected ==
    [][\A phone \in AllPhones :
          (phone \notin DOMAIN conversationState /\ phone \in DOMAIN conversationState')
          => (Unavailable(conversationState'[phone].instance)
                 => \A n \in InstanceNames : Unavailable(n))]_vars

C7_Witness ==
    /\ instanceStats[INSTANCES[1]].blocked
    /\ instanceStats[INSTANCES[1]].total_leads = 0
    /\ ~instanceStats[INSTANCES[2]].blocked
    /\ instanceStats[INSTANCES[2]].total_leads = 2
    /\ lastResult = "created"

C9_SweeperRemovesStale ==
    [][SweeperPass
          => (/\ \A phone \in DOMAIN conversationState' :
                    now - conversationState'[phone].last_activity <= RetentionHorizon
              /\ \A phone \in (DOMAIN conversationState) \ (DOMAIN conversationState') :
                    TimersOf(timers', phone) = {})]_vars

\* C10: a sweeper pass keeps every conversation whose last activity is within the
\* retention horizon, and leaves its pending timer armed.
C10_SweeperKeepsRecent ==
    [][SweeperPass
          => \A phone \in DOMAIN conversationState :
                now - conversationState[phone].last_activity <= RetentionHorizon
                   => (/\ phone \in DOMAIN conversationState'
                       /\ TimersOf(timers', phone) = TimersOf(timers, phone))]_vars

\* the conversation is waiting on a checkpoint
Waiting(phone) ==
    phone \in DOMAIN conversationState /\ conversationState[phone].waiting_response

\* C11: a sweeper pass never removes a conversation that is waiting on a checkpoint
\* whose timeout deadline has not elapsed.
C11_SweeperKeepsActiveUse ==
    [][SweeperPass
          => \A phone \in AllPhones :
                (Waiting(phone) /\ now < deadline[phone])
                   => phone \in DOMAIN conversationState']_vars

\* C12: right after a sweeper pass no stored conversation is waiting on a checkpoint
\* whose deadline has elapsed.
C12_SweeperTimesOutElapsed ==
    [][SweeperPass
          => \A phone \in DOMAIN conversationState' :
                ~(conversationState'[phone].waiting_response /\ now > deadline'[phone])]_vars

\* C13: a sweeper pass that directly follows a sweeper pass, at the same clock value,
\* changes neither the conversations, nor the timers, nor the instance stats, nor the
\* global history.
C13_SweeperIdempotent ==
    [][(SweeperPass /\ lastResult = "swept")
          => UNCHANGED <<conversationState, timers, checkpointTimeouts, instanceStats,
                         checkpointHistory>>]_vars

\* a pass has just run and a conversation it expired or removed is visible
C13_Witness ==
    /\ lastResult = "swept"
    /\ \/ \E phone \in DOMAIN conversationState :
             conversationState[phone].status = "expired"
       \/ \E phone \in AllPhones :
             pending[phone] # NoCheckpoint /\ phone \notin DOMAIN conversationState

\* this step is the timeout of the checkpoint the client was waiting on, by the timer
\* callback or by the sweeper's expiry
TimeoutTransition(phone) ==
    /\ Waiting(phone)
    /\ pending[phone] # NoCheckpoint
    /\ pending'[phone] = NoCheckpoint
    /\ lastResult' \in {"timeout", "swept"}

\* the clients of an instance whose checkpoint times out in this step
TimedOutOn(instanceName) ==
    {phone \in AllPhones :
        TimeoutTransition(phone) /\ conversationState[phone].instance = instanceName}

\* C14: when a waiting checkpoint times out, the timeout count of the assigned instance
\* goes up by one and its active_conversations goes down by one, floored at 0.
C14_TimeoutUpdatesInstanceStats ==
    [][\A n \in InstanceNames :
          LET k == Cardinality(TimedOutOn(n))
          IN  k > 0
                 => (/\ instanceStats'[n].timeouts = instanceStats[n].timeouts + k
                     /\ instanceStats'[n].active_conversations =
                            Max(0, instanceStats[n].active_conversations - k))]_vars

\* C15: every timeout of a waiting checkpoint emits exactly one checkpoint_timeout
\* notification carrying the client and the checkpoint.
C15_TimeoutNotifiesOnce ==
    [][\A phone \in AllPhones :
          TimeoutTransition(phone)
             => Cardinality({i \in 1..Len(notifications') :
                    /\ notifications'[i].event = "checkpoint_timeout"
                    /\ notifications'[i].phone = phone
                    /\ notifications'[i].checkpoint = pending[phone]}) = 1]_vars

\* this step commits the resolve of the checkpoint the client was waiting on
ResolveCommitted(phone) ==
    /\ Waiting(phone)
    /\ resolved[phone] = NoCheckpoint
    /\ resolved'[phone] # NoCheckpoint

\* C16: a step that commits a resolve calls the notifier exactly once with
\* checkpoint_passed, the client, the resolved checkpoint and the assigned instance.
C16_ResolveNotifiesOnce ==
    [][\A phone \in AllPhones :
          ResolveCommitted(phone)
             => Cardinality({i \in 1..Len(notifications') :
                    notifications'[i] =
                        Notification("checkpoint_passed", phone, resolved'[phone],
                                     conversationState[phone].instance)}) = 1]_vars

\* the state a notification reports is already stored when the notifier is called
Committed(n) ==
    /\ n.phone \in DOMAIN conversationState'
    /\ n.event = "checkpoint_passed"
          => (/\ ~conversationState'[n.phone].waiting_response
              /\ checkpointHistory' # <<>>
              /\ Head(checkpointHistory').phone = n.phone
              /\ Head(checkpointHistory').checkpoint = n.checkpoint)
    /\ n.event = "checkpoint_timeout"
          => (/\ ~conversationState'[n.phone].waiting_response
              /\ conversationState'[n.phone].status = "timeout")

\* C17: the notifier is called with the state already committed; when its call settles,
\* with success or failure, conversations, instance stats, history and timers stay as
\* they are and no call is made again.
C17_NotifierFireAndForget ==
    [][/\ \A i \in 1..Len(notifications') :
             notifications' # notifications => Committed(notifications'[i])
       /\ \A ok \in BOOLEAN :
             notifyN8N(ok)
                => (/\ UNCHANGED <<conversationState, instanceStats, checkpointHistory,
                                   timers, checkpointTimeouts, dailyStats>>
                    /\ notifications' = <<>>)]_vars

\* the notification of a resolve has failed
C17_Witness ==
    /\ lastResult = "notify_failed"
    /\ \E phone \in DOMAIN conversationState : resolved[phone] # NoCheckpoint

\* response_rate2 after one more response, as the stats table has it: + 0.5, at most 100
RaisedResponseRate2(rate2) == IF rate2 + 1 > 200 THEN 200 ELSE rate2 + 1

\* C18 as stated: a committed resolve raises the response_rate of the assigned
\* instance by 0.5 (1 in halves), whatever its value was.
C18_ResponseRatePlusHalf ==
    [][\A phone \in AllPhones :
          ResolveCommitted(phone)
             => LET n == conversationState[phone].instance
                IN  instanceStats'[n].response_rate2 = instanceStats[n].response_rate2 + 1]_vars

\* C18 amended: a committed resolve raises the response_rate of the assigned instance
\* by 0.5 up to the ceiling of 100; a rate of 100, the initial value, stays 100.
C18_ResponseRatePlusHalfCapped ==
    [][\A phone \in AllPhones :
          ResolveCommitted(phone)
             => LET n == conversationState[phone].instance
                IN  instanceStats'[n].response_rate2 =
                        RaisedResponseRate2(instanceStats[n].response_rate2)]_vars

\* a resolve has just raised a response_rate that a timeout had lowered to 98
C18_Witness ==
    /\ lastResult = "passed"
    /\ \E phone \in DOMAIN conversationState :
          /\ resolved[phone] # NoCheckpoint
          /\ instanceStats[conversationState[phone].instance].response_rate2 = 197

\* C19: the active_conversations count of an instance is never negative.
C19_ActiveConversationsNonNegative ==
    \A n \in InstanceNames : instanceStats[n].active_conversations >= 0

ActivateRequest(phone) ==
    \/ \E checkpointName \in CheckpointNames, timeout \in TimeoutOptions :
          CheckpointActivate(phone, checkpointName, timeout)
    \/ \E checkpointId \in CheckpointNames : ActivateCheckpointIdx(phone, checkpointId)

\* C21: activate for a client without a stored conversation fails with NotFound and
\* changes nothing: no conversation appears, no timer is armed, the instance stats and
\* every counter stay as they are, and nothing is notified.
C21_ActivateMissingChangesNothing ==
    [][\A phone \in AllPhones :
          (ActivateRequest(phone) /\ phone \notin DOMAIN conversationState)
          => (/\ lastResult' = "NotFound"
              /\ notifications' = <<>>
              /\ UNCHANGED <<conversationState, timers, checkpointTimeouts, instanceStats,
                             instanceActive, instanceCounter, instanceRotationCounter,
                             checkpointHistory, dailyStats, totalLeadsProcessed>>)]_vars

\* activate was refused for a client whose conversation the sweeper had removed
C21_Witness ==
    /\ lastResult = "NotFound"
    /\ conversationState = EmptyMap
    /\ \E n \in InstanceNames : instanceStats[n].total_leads > 0

\* a request to create the conversation of the client
CreationRequest(phone) == LeadNew(phone) \/ StartConversation(phone)

\* C22: a creation request for a client that has a stored conversation reports the
\* existing one and changes nothing: conversations, timers, instance stats, rotation
\* counters and lead counters stay as they are, and nothing is notified.
C22_CreateExistingChangesNothing ==
    [][\A phone \in AllPhones :
          (CreationRequest(phone) /\ phone \in DOMAIN conversationState)
          => (/\ lastResult' = "existing"
              /\ notifications' = <<>>
              /\ UNCHANGED <<conversationState, timers, checkpointTimeouts, instanceStats,
                             instanceActive, instanceCounter, instanceRotationCounter,
                             fallbackPicks, checkpointHistory, dailyStats,
                             totalLeadsProcessed>>)]_vars

\* the creation request found a conversation that is waiting on a checkpoint
C22_Witness ==
    /\ lastResult = "existing"
    /\ \E phone \in AllPhones : Waiting(phone) /\ pending[phone] # NoCheckpoint

\* an inbound message reaches the webhook
InboundMessage(phone, text, fromMe) ==
    \/ WebhookEvolution(phone, text, fromMe)
    \/ WebhookEvolutionIdx(phone, text, fromMe)

\* the texts that consist of white space only
WhitespaceOnly == {"", " "}

\* C23: an inbound message that is an echo of the system's own message, or whose text
\* is empty or white space only, changes no state: no conversation is created, resolved
\* or modified, instance stats, counters and histories stay, no timer is cancelled and
\* nothing is notified.
C23_EchoAndBlankIgnored ==
    [][\A phone \in AllPhones, text \in Messages, fromMe \in BOOLEAN :
          (InboundMessage(phone, text, fromMe) /\ (fromMe \/ text \in WhitespaceOnly))
          => (/\ notifications' = <<>>
              /\ UNCHANGED <<conversationState, timers, checkpointTimeouts, instanceStats,
                             instanceActive, instanceCounter, instanceRotationCounter,
                             checkpointHistory, dailyStats, totalLeadsProcessed,
                             pending, resolved>>)]_vars

\* a message was ignored although the client's conversation is waiting for a response
C23_Witness ==
    /\ lastResult = "ignored"
    /\ \E phone \in AllPhones : Waiting(phone) /\ pending[phone] # NoCheckpoint

\* the clients whose stored conversation is waiting on a checkpoint
WaitingPhones == {phone \in AllPhones : Waiting(phone)}

\* C24: in the server that keeps the registry of pending timeouts, every entry of the
\* registry belongs to a stored conversation that is waiting on exactly that checkpoint,
\* and the registry has as many entries as there are unresolved checkpoints.
C24_RegistryMatchesWaiting ==
    variant = "part_001"
        => (/\ \A key \in checkpointTimeouts :
                  \E phone \in WaitingPhones :
                     TimeoutKey(phone, conversationState[phone].current_checkpoint) = key
            /\ Cardinality(checkpointTimeouts) = Cardinality(WaitingPhones))

\* the newest cap entries of a history that is kept newest first
NewestEntries(history, cap) ==
    IF Len(history) > cap THEN SubSeq(history, 1, cap) ELSE history

\* C25: the global checkpoint history never holds more than the count cap, and a
\* resolve that would exceed the cap puts its entry in front and drops the oldest
\* entries.
C25_HistoryBounded ==
    [][/\ Len(checkpointHistory') <= HISTORY_CAP
       /\ \A phone \in AllPhones :
             ResolveCommitted(phone)
                => (/\ checkpointHistory' # <<>>
                    /\ Head(checkpointHistory').phone = phone
                    /\ Head(checkpointHistory').checkpoint = pending[phone]
                    /\ checkpointHistory' =
                           NewestEntries(<<Head(checkpointHistory')>> \o checkpointHistory,
                                         HISTORY_CAP))]_vars

\* the entry is newer than the retention horizon
WithinHorizon(h) == h.timestamp > now - RetentionHorizon

\* C26: right after a sweeper pass every entry left in the global checkpoint history
\* is newer than now minus the retention horizon, and the entries that were newer than
\* that before the pass are all still there, in the order they had.
C26_SweeperPrunesHistoryByAge ==
    [][SweeperPass
          => (/\ \A i \in 1..Len(checkpointHistory') : WithinHorizon(checkpointHistory'[i])
              /\ checkpointHistory' = SelectSeq(checkpointHistory, WithinHorizon))]_vars

\* a pass has dropped the old entries of "b" and kept the newer entry of "a"
C26_Witness ==
    /\ lastResult = "swept"
    /\ Len(checkpointHistory) = 1
    /\ checkpointHistory[1].phone = "a"
    /\ checkpointHistory[1].timestamp > 0

\* a stats event is applied to the instance in this step: its stats record changes, or
\* a client assigned to it resolves or times out
StatsEventOn(instanceName) ==
    \/ instanceStats'[instanceName] # instanceStats[instanceName]
    \/ \E phone \in AllPhones :
          /\ ResolveCommitted(phone) \/ TimeoutTransition(phone)
          /\ conversationState[phone].instance = instanceName

\* C27: every stats event applied to an instance sets its last_activity to the current
\* time.
C27_StatsEventRefreshesLastActivity ==
    [][\A n \in InstanceNames :
          StatsEventOn(n) => instanceStats'[n].last_activity = now]_vars

\* C28: the response_rate and the health_score of every instance stay within 0 and 100
\* (response_rate2 within 0 and 200), whatever responses, timeouts and blocks happen.
C28_RatesWithinRange ==
    \A n \in InstanceNames :
        /\ instanceStats[n].response_rate2 >= 0
        /\ instanceStats[n].response_rate2 <= 200
        /\ instanceStats[n].health_score >= 0
        /\ instanceStats[n].health_score <= 100

\* more timeouts than the response rate and the health score have room for
C28_Witness ==
    /\ instanceStats[INSTANCES[1]].timeouts = MaxStatsTimeouts
    /\ instanceStats[INSTANCES[1]].checkpoints_passed = 0
    /\ instanceStats[INSTANCES[1]].response_rate2 = 0
    /\ instanceStats[INSTANCES[1]].health_score = 0
    /\ ~instanceStats[INSTANCES[1]].blocked

\* what the resolve of this step returns to the webhook
ResolveReturn(phone, text) ==
    IF variant = "part_001" THEN processCheckpointResponseReturn(phone, text)
    ELSE processClientResponseReturn(phone, text)

\* the checkpoint id in the value a resolve returns
ReturnedCheckpoint(r) ==
    IF "checkpoint_passed" \in DOMAIN r THEN r.checkpoint_passed ELSE r.checkpoint

\* C29: a successful resolve returns the resolved checkpoint id together with the
\* cumulative passed count, and that count is the number of entries of the
\* conversation's local checkpoint history.
C29_ResolveReturnsPassedCount ==
    [][\A phone \in AllPhones, text \in Messages :
          (InboundResponse(phone, text) /\ ResolveCommitted(phone))
          => LET r == ResolveReturn(phone, text)
             IN  /\ ReturnedCheckpoint(r) = pending[phone]
                 /\ "total_passed" \in DOMAIN r
                 /\ r.total_passed = Len(conversationState'[phone].checkpoints)]_vars

\* the step is not about the client: its conversation stays as it is, it is not an
\* activate request for it, and none of its timers fires
StepOfOthers(phone) ==
    /\ phone \in DOMAIN conversationState
    /\ phone \in DOMAIN conversationState'
    /\ conversationState'[phone] = conversationState[phone]
    /\ ~ActivateRequest(phone)
    /\ \A t \in TimersOf(timers, phone) : ~TimerFire(t)

\* C30: timers of different clients do not interfere, whatever strings the client ids
\* and checkpoint ids are: a step about other clients (activate, resolve, sweep)
\* leaves the armed timers of a client armed and registered under their own key.
C30_TimersDoNotInterfere ==
    [][\A phone \in AllPhones :
          StepOfOthers(phone) => TimersOf(timers', phone) = TimersOf(timers, phone)]_vars

\* the conversation has reached the timed-out outcome
TimedOutOutcome(phone) ==
    /\ phone \in DOMAIN conversationState
    /\ conversationState[phone].status \in {"timeout", "expired"}
    /\ ~conversationState[phone].waiting_response

\* C31: while timer callbacks and sweeper passes keep running, a conversation that
\* waits on a checkpoint with deadline d reaches the timed-out outcome (status timeout
\* or expired, not waiting), unless a response resolves it or a re-activation moves
\* the deadline; deadlines beyond the last clock value are left out.
C31_WaitingEventuallyTimesOut ==
    \A d \in 1..(MaxTimeLive - 1) :
        (Waiting("a") /\ deadline["a"] = d)
            ~> (\/ TimedOutOutcome("a")
                \/ resolved["a"] # NoCheckpoint
                \/ deadline["a"] # d)

\* C32: a timeout or expiry of a client's checkpoint never happens before the full
\* timeout duration has passed since the client's most recent activation.
C32_NoTimeoutBeforeDeadline ==
    [][\A phone \in AllPhones :
          TimeoutTransition(phone) => now >= deadline[phone]]_vars

\* the instance of the selection made by the step that led to this state
PreviousSelection ==
    IF notifications # <<>> /\ notifications[1].event = "new_lead"
    THEN notifications[1].instance ELSE ""

StartConversationError ==
    /\ \E phone \in AllPhones : StartConversation(phone)
    /\ lastResult' = "error"

\* C34: a start-conversation request that is answered with an error leaves the
\* global state as it was: no conversation is stored for the client and no
\* counter of any instance (total_leads, active_conversations) has moved.
C34_FailedStartChangesNothing ==
    [][StartConversationError => UNCHANGED <<conversationState, instanceStats>>]_vars

\* the first non-echo, non-empty message of a client that has no stored conversation
FirstContact(phone) ==
    /\ phone \notin DOMAIN conversationState
    /\ InboundResponse(phone, "yes")

\* a non-echo, non-empty message of a client whose conversation is stored
LaterContact(phone) ==
    /\ phone \in DOMAIN conversationState
    /\ InboundResponse(phone, "yes")

\* C35: the first non-echo, non-empty inbound message of a client without a stored
\* conversation creates one idle conversation for it (no current checkpoint, not
\* waiting, status active, assigned to the selected instance), emits one new_lead
\* notification and resolves no checkpoint; a later message of that client creates no
\* further conversation and counts no further lead.
C35_FirstMessageCreatesConversation ==
    [][\A phone \in AllPhones :
          /\ FirstContact(phone)
                => /\ DOMAIN conversationState' = DOMAIN conversationState \cup {phone}
                   /\ conversationState'[phone].current_checkpoint = NoCheckpoint
                   /\ ~conversationState'[phone].waiting_response
                   /\ conversationState'[phone].status = "active"
                   /\ Len(notifications') = 1
                   /\ notifications'[1].event = "new_lead"
                   /\ notifications'[1].phone = phone
                   /\ notifications'[1].instance = conversationState'[phone].instance
                   /\ checkpointHistory' = checkpointHistory
          /\ LaterContact(phone)
                => /\ DOMAIN conversationState' = DOMAIN conversationState
                   /\ totalLeadsProcessed' = totalLeadsProcessed
                   /\ \A i \in 1..Len(notifications') : notifications'[i].event # "new_lead"]_vars

\* this step applies the timeout / expiry transition to the conversation of the client
TimeoutApplied(phone) ==
    \/ \E t \in timers : t.phone = phone /\ TimerFire(t) /\ lastResult' = "timeout"
    \/ /\ cleanupExpiredCheckpoints
       /\ phone \in DOMAIN conversationState
       /\ cleanupExpires(conversationState[phone])

\* this step records the response of the client as passing a checkpoint
PassRecorded(phone) ==
    /\ phone \in DOMAIN conversationState
    /\ InboundResponse(phone, "yes")
    /\ Len(conversationState'[phone].checkpoints) > Len(conversationState[phone].checkpoints)

\* C36: an activation has at most one outcome. No timeout / expiry transition is
\* applied to a conversation whose latest activation was already recorded as passed,
\* and no response is recorded as passed for an activation that is already over.
C36_OneOutcomePerActivation ==
    [][\A phone \in AllPhones :
          /\ TimeoutApplied(phone) => resolved[phone] = NoCheckpoint
          /\ PassRecorded(phone) => pending[phone] # NoCheckpoint]_vars

\* C37: in every reachable state a conversation that is waiting for a response has
\* status active; a conversation marked expired / timeout is not waiting, also after it
\* was activated again.
C37_WaitingImpliesActive ==
    \A phone \in AllPhones :
        Waiting(phone) => conversationState[phone].status = "active"

\* the stored conversations of an instance whose status is active
ActiveOn(instanceName) ==
    {phone \in DOMAIN conversationState :
        /\ conversationState[phone].instance = instanceName
        /\ conversationState[phone].status = "active"}

\* C38: in every reachable state the active_conversations counter of each instance
\* equals the number of stored conversations that are assigned to it and have status
\* active.
C38_ActiveCounterMatchesStore ==
    \A instanceName \in InstanceNames :
        instanceStats[instanceName].active_conversations = Cardinality(ActiveOn(instanceName))

\* C39: a response that arrives after the deadline of the checkpoint the client is
\* waiting on is not recorded as passing it, whether or not the timer callback or the
\* sweeper has run since the deadline.
C39_LateResponseNeverPasses ==
    [][\A phone \in AllPhones :
          (/\ Waiting(phone)
           /\ pending[phone] # NoCheckpoint
           /\ now > deadline[phone])
          => ~PassRecorded(phone)]_vars

\* the conversation of the client is stored before and after this step
StaysStored(phone) ==
    /\ phone \in DOMAIN conversationState
    /\ phone \in DOMAIN conversationState'

\* C40: the instance a conversation is assigned to never changes while the conversation
\* is stored: no request, timer callback, sweeper pass or blocking of an instance
\* changes the instance field of a stored conversation.
C40_AssignedInstanceNeverChanges ==
    [][\A phone \in AllPhones :
          StaysStored(phone)
             => conversationState'[phone].instance = conversationState[phone].instance]_vars

\* a stored conversation is left on an instance that the operator has blocked, after a
\* repeated creation request for its client
C40_Witness ==
    \E phone \in DOMAIN conversationState :
        /\ instanceStats[conversationState[phone].instance].blocked
        /\ lastResult = "existing"

====
